---- MODULE Spec2Model ----
(***************************************************************************)
(* Phone shop: the session cart, the pending cart-add relay and the        *)
(* cart-to-order transition (cart/views.py, shop/utils.py,                 *)
(* accounts/views.py, shop/admin.py).                                      *)
(*                                                                         *)
(* Every client sends one request at a time; a client is a browser with a  *)
(* session of its own or a tab of a browser, which shares the browser's    *)
(* session.  Requests of different clients interleave at the granularity   *)
(* of their database statements; the cart and account views are modelled   *)
(* for a client that is alone in its session.  order_create runs with      *)
(* Django's default                                                        *)
(* autocommit: the source opens no transaction and takes no row lock, so   *)
(* every ORM call is its own committed statement.                          *)
(***************************************************************************)
EXTENDS Integers, Sequences, FiniteSets

\* ------------------------------------------------------------------ bounds
MaxStock == 2          \* largest stock value a product starts with or is edited to
MaxQty == 2            \* largest quantity a request asks for
MaxRequests == 4       \* requests handled in one behaviour

Sessions == {"s1", "s2"}
Products == {1, 2}

\* the ids a request can name: the products and one id of no product
Missing == 3
ProductIds == Products \cup {Missing}

\* the integers a posted quantity can denote
Quantities == -1..MaxQty

\* the next parameter of a login or registration request: absent or a page
NextUrls == {"", "profile"}

NoOrder == 0

\* the contact fields of a posted order form, as one value: two that are
\* complete and one with a required field left empty
NoContact == ""
Contacts == {"ann", "bob"}
Forms == Contacts \cup {NoContact}
NoPending == [product_id |-> 0, quantity |-> "", override |-> FALSE]
NoMessage == [kind |-> "none", n |-> 0]
NoPage == [view |-> "none", user |-> "anonymous", asked |-> 0, status |-> "none",
           orders |-> {}]

VARIABLES
    stock,      \* Product.stock, by product id (the database column)
    price,      \* Product.price, by product id
    cart,       \* session['cart']: sequence of lines in insertion order
    pending,    \* session['pending_cart_add'] or NoPending
    auth,       \* request.user.is_authenticated of the session
    msg,        \* the message the last cart request of the session flashed
    resp,       \* the response to the session's last cart or account request
    orders,     \* Order rows; the id of a row is its index
    items,      \* OrderItem rows
    notified,   \* orders whose confirmation email was sent
    mailFailed, \* orders whose confirmation email failed (logged)
    pc,         \* position of the session's order_create request
    rcart,      \* the request's Cart instance (self.cart)
    prods,      \* Product instances loaded by the running cart iteration
    idx,        \* position of the second loop of order_create
    ord,        \* id of the Order the request saved, or NoOrder
    report,     \* stock_errors of the request
    form,       \* the contact fields the request posted (OrderCreateForm)
    page,       \* what the client's last order_history or order_detail
                \* request was answered with
    sid,        \* the session whose cookie the client sends: its own one, or
                \* the one of the browser it is a tab of
    result,     \* how the session's last order_create ended
    nreq,       \* requests handled so far
    supplied,   \* history: the units of each product put on sale so far
    crashed,    \* history: a request died of a persistence failure
    alone,      \* history: no other order_create ran during the session's one
    before,     \* history: the stock and the number of orders when that one began
    ver,        \* history: number of writes of each product's stock
    valver,     \* history: the stock versions the request validated against
    decs,       \* history: (product, validated version, order) of each decrement
    replaced,   \* history: the session's last request wrote over a pending
                \* intent or over the quantity of a cart line
    op,         \* history: the view that handled the session's last request
    added       \* history: the session whose cart.add call ended the request
                \* handled last, or "none"

vars == <<stock, cart, pending, auth, msg, resp, orders, items, notified,
          mailFailed, pc, rcart, prods, idx, ord, report, result, nreq,
          supplied, crashed, alone, before, ver, valver, decs, replaced, op,
          price, added, form, sid, page>>

dbVars == <<stock, price, orders, items>>
mailVars == <<notified, mailFailed>>
sessVars == <<cart, pending, auth, msg, resp, replaced, op>>
reqVars == <<pc, rcart, prods, idx, ord, report, result, form>>
histVars == <<supplied, crashed, alone, before, ver, valver, decs>>

NoSnapshot == [stock |-> [p \in Products |-> 0], orders |-> 0]

\* ------------------------------------------------------------ the catalog
\* Product.price of a product when it is put in the catalog, one distinct
\* price per product
Price(p) == 10 * p

\* the prices staff give a product
Prices == {10, 20, 30}

\* the request has loaded no Product instance
NoProducts == [p \in Products |-> [stock |-> 0, price |-> 0]]

\* ------------------------------------------------------------------- Cart
cart_ids(c) == {c[i].pid : i \in 1..Len(c)}

line_index(c, p) == CHOOSE i \in 1..Len(c) : c[i].pid = p

\* cart.cart.get(product_id_str, {}).get('quantity', 0)
current_cart_quantity(c, p) ==
    IF p \in cart_ids(c) THEN c[line_index(c, p)].quantity ELSE 0

\* an add that takes the product's price again for a line the cart has
CartAdd_refreshes_price(c, p, q, ov) ==
    IF p \in cart_ids(c)
    THEN [c EXCEPT ![line_index(c, p)] =
             [pid |-> p, quantity |-> IF ov THEN q ELSE @.quantity + q,
              price |-> price[p]]]
    ELSE Append(c, [pid |-> p, quantity |-> q, price |-> price[p]])

\* Cart.add(product, quantity, override_quantity): a new line takes the
\* product's price of the moment, a line the cart has keeps its price
CartAdd(c, p, q, ov) ==
    IF p \in cart_ids(c)
    THEN [c EXCEPT ![line_index(c, p)].quantity = IF ov THEN q ELSE @ + q]
    ELSE Append(c, [pid |-> p, quantity |-> q, price |-> price[p]])

\* Cart.remove(product)
CartRemove(c, p) == SelectSeq(c, LAMBDA l : l.pid # p)

\* a total at the products' prices of the moment
RECURSIVE get_total_price_live(_)
get_total_price_live(c) ==
    IF c = <<>> THEN 0
    ELSE price[Head(c).pid] * Head(c).quantity + get_total_price_live(Tail(c))

\* Cart.get_total_price(): the sum of price * quantity over the lines the
\* cart holds when it is called
RECURSIVE get_total_price(_)
get_total_price(c) ==
    IF c = <<>> THEN 0
    ELSE Head(c).price * Head(c).quantity + get_total_price(Tail(c))

\* ------------------------------------------------- the posted form values
Digit == <<"0", "1", "2", "3", "4", "5", "6", "7", "8", "9">>

\* the text of a small integer as a form posts it
str(n) == IF n < 0 THEN "-" \o Digit[1 - n] ELSE Digit[n + 1]

\* the texts of the integers a posted quantity can denote
Texts == [n \in Quantities |-> str(n)]

\* request.POST['quantity']: the text of an integer, or text that is none
RawQuantities == {Texts[n] : n \in Quantities} \cup {"abc"}

\* request.POST['override']: the unchecked box of the test client, the
\* checked box of a browser, the hidden field of the cart page
RawOverrides == {"False", "on", "True"}

\* does Python's int() accept the text?
is_int(r) == \E n \in Quantities : Texts[n] = r

\* int(text), for a text int() accepts; it raises ValueError for any other
int(r) == CHOOSE n \in Quantities : Texts[n] = r

\* CartAddProductForm.is_valid(): the quantity is a positive integer
form_is_valid(rq) == is_int(rq) /\ int(rq) >= 1

\* cd['override'] of the form's boolean field: every text but a false one
clean_override(rov) == rov \notin {"False", "false", "0", ""}

\* A customer who has logged in and a guest, both with a new session.
Init ==
    /\ stock = [p \in Products |-> MaxStock]
    /\ price = [p \in Products |-> Price(p)]
    /\ cart = [s \in Sessions |-> <<>>]
    /\ pending = [s \in Sessions |-> NoPending]
    /\ auth = [s \in Sessions |-> s = "s1"]
    /\ sid = [s \in Sessions |-> s]
    /\ msg = [s \in Sessions |-> NoMessage]
    /\ resp = [s \in Sessions |-> "none"]
    /\ replaced = [s \in Sessions |-> FALSE]
    /\ op = [s \in Sessions |-> "none"]
    /\ added = "none"
    /\ orders = <<>>
    /\ items = {}
    /\ notified = {}
    /\ mailFailed = {}
    /\ pc = [s \in Sessions |-> "idle"]
    /\ rcart = [s \in Sessions |-> <<>>]
    /\ prods = [s \in Sessions |-> NoProducts]
    /\ idx = [s \in Sessions |-> 0]
    /\ ord = [s \in Sessions |-> NoOrder]
    /\ report = [s \in Sessions |-> <<>>]
    /\ form = [s \in Sessions |-> NoContact]
    /\ page = [s \in Sessions |-> NoPage]
    /\ result = [s \in Sessions |-> "none"]
    /\ nreq = 0
    /\ supplied = stock
    /\ crashed = FALSE
    /\ alone = [s \in Sessions |-> FALSE]
    /\ before = [s \in Sessions |-> NoSnapshot]
    /\ ver = [p \in Products |-> 0]
    /\ valver = [s \in Sessions |-> [p \in Products |-> 0]]
    /\ decs = {}

\* A session sends its next request when its previous one has been answered.
CanRequest(s) == pc[s] = "idle" /\ nreq < MaxRequests

\* ------------------------------------------------------ cart_add (views.py)
\* a total that ignores the override flag
total_requested_always_adds(c, p, q, ov) == current_cart_quantity(c, p) + q

\* a total that ignores what the cart holds
total_requested_ignores_cart(c, p, q, ov) == q

\* lines 55-56 and 91-92
total_requested(c, p, q, ov) ==
    IF ov THEN q ELSE current_cart_quantity(c, p) + q

\* the validation without its first check
add_outcome_no_sold_out_check(c, p, q, ov, st, okmsg) ==
    IF total_requested(c, p, q, ov) > st
    THEN [msg |-> [kind |-> "only_n", n |-> st], cart |-> c, added |-> FALSE]
    ELSE [msg |-> okmsg, cart |-> CartAdd(c, p, q, ov), added |-> TRUE]

\* a validation whose cart.add call leaves the override flag out
add_outcome_drops_override(c, p, q, ov, st, okmsg) ==
    IF st = 0
    THEN [msg |-> [kind |-> "out_of_stock", n |-> 0], cart |-> c, added |-> FALSE]
    ELSE IF total_requested(c, p, q, ov) > st
    THEN [msg |-> [kind |-> "only_n", n |-> st], cart |-> c, added |-> FALSE]
    ELSE [msg |-> okmsg, cart |-> CartAdd(c, p, q, FALSE), added |-> TRUE]

\* the stock validation shared by cart_add and complete_pending_add:
\* the message flashed, the cart the request leaves, whether cart.add ran
add_outcome(c, p, q, ov, st, okmsg) ==
    IF st = 0
    THEN [msg |-> [kind |-> "out_of_stock", n |-> 0], cart |-> c, added |-> FALSE]
    ELSE IF total_requested(c, p, q, ov) > st
    THEN [msg |-> [kind |-> "only_n", n |-> st], cart |-> c, added |-> FALSE]
    ELSE [msg |-> okmsg, cart |-> CartAdd(c, p, q, ov), added |-> TRUE]

\* a request that leaves the cart alone
untouched(c, r) == [msg |-> NoMessage, cart |-> c, added |-> FALSE, resp |-> r]

\* the answer of the view after the validation: every branch redirects to
\* cart:cart_detail
redirected(out) ==
    [msg |-> out.msg, cart |-> out.cart, added |-> out.added, resp |-> "cart_detail"]

\* an intent that is kept when the session already holds one
save_intent_keeps_first(old, p, rq, rov) ==
    IF old.product_id # 0
    THEN old
    ELSE [product_id |-> p, quantity |-> rq, override |-> (rov = "on")]

\* lines 29-33: the intent an unauthenticated cart_add writes over the
\* session's old one; the quantity as posted, the override flag as
\* request.POST.get('override', False) == 'on'
save_intent(old, p, rq, rov) ==
    [product_id |-> p, quantity |-> rq, override |-> (rov = "on")]

\* lines 42-66: cart_add of an authenticated user
direct_add(c, p, rq, rov) ==
    IF p \notin Products
    THEN untouched(c, "not_found")
    ELSE IF ~form_is_valid(rq)
    THEN untouched(c, "cart_detail")
    ELSE redirected(add_outcome(c, p, int(rq), clean_override(rov), stock[p],
                                NoMessage))

cart_add(s, p, rq, rov) ==
    /\ CanRequest(s)
    /\ op' = [op EXCEPT ![s] = "cart_add"]
    /\ nreq' = nreq + 1
    /\ IF ~auth[s]
       THEN /\ pending' = [pending EXCEPT ![s] = save_intent(@, p, rq, rov)]
            /\ replaced' = [replaced EXCEPT ![s] = (pending[s] # NoPending)]
            /\ msg' = [msg EXCEPT ![s] = NoMessage]
            /\ resp' = [resp EXCEPT ![s] = "login"]
            /\ added' = "none"
            /\ UNCHANGED cart
       ELSE LET out == direct_add(cart[s], p, rq, rov)
            IN /\ msg' = [msg EXCEPT ![s] = out.msg]
               /\ cart' = [cart EXCEPT ![s] = out.cart]
               /\ resp' = [resp EXCEPT ![s] = out.resp]
               /\ added' = IF out.added THEN s ELSE "none"
               /\ replaced' = [replaced EXCEPT ![s] =
                     out.added /\ clean_override(rov) /\ p \in cart_ids(cart[s])]
               /\ UNCHANGED pending
    /\ UNCHANGED <<sid, page, auth, dbVars, mailVars, reqVars, histVars>>

\* ------------------------------------------ complete_pending_add (views.py)
AddedMessage == [kind |-> "added", n |-> 0]

\* a test that takes every session for one with a pending intent
has_pending_always(pd) == TRUE

\* line 77 (if pending:) and 'pending_cart_add' in request.session
has_pending(pd) == pd # NoPending

\* a quantity that is always the default of pending.get('quantity', 1)
pending_quantity_default(rq) == 1

\* line 88: int(pending.get('quantity', 1)), for a text int() accepts
pending_quantity(rq) == int(rq)

\* a view that looks the product up with filter().first() and redirects when
\* there is none
resume_redirects_unknown(c, pd) ==
    IF ~has_pending(pd) \/ pd.product_id \notin Products
    THEN [out |-> untouched(c, "cart_detail"), popped |-> TRUE]
    ELSE IF stock[pd.product_id] = 0
    THEN [out |-> redirected(add_outcome(c, pd.product_id, 0, pd.override, 0,
                                         AddedMessage)),
          popped |-> TRUE]
    ELSE IF ~is_int(pd.quantity)
    THEN [out |-> untouched(c, "server_error"), popped |-> FALSE]
    ELSE [out |-> redirected(add_outcome(c, pd.product_id,
                                         pending_quantity(pd.quantity),
                                         pd.override, stock[pd.product_id],
                                         AddedMessage)),
          popped |-> TRUE]

\* lines 75-103: the outcome and whether the session is saved with the
\* intent popped.  An exception of the view is answered with status 500 and
\* the session middleware saves no session of such a response, so the
\* intent popped then is still in the session of the next request.
resume(c, pd) ==
    IF ~has_pending(pd)
    THEN [out |-> untouched(c, "cart_detail"), popped |-> TRUE]
    ELSE IF pd.product_id \notin Products
    THEN [out |-> untouched(c, "not_found"), popped |-> TRUE]
    ELSE IF stock[pd.product_id] = 0
    THEN [out |-> redirected(add_outcome(c, pd.product_id, 0, pd.override, 0,
                                         AddedMessage)),
          popped |-> TRUE]
    ELSE IF ~is_int(pd.quantity)
    THEN [out |-> untouched(c, "server_error"), popped |-> FALSE]
    ELSE [out |-> redirected(add_outcome(c, pd.product_id,
                                         pending_quantity(pd.quantity),
                                         pd.override, stock[pd.product_id],
                                         AddedMessage)),
          popped |-> TRUE]

complete_pending_add(s) ==
    /\ CanRequest(s)
    /\ op' = [op EXCEPT ![s] = "complete_pending_add"]
    /\ nreq' = nreq + 1
    /\ LET r == resume(cart[s], pending[s])
       IN /\ pending' = [pending EXCEPT ![s] = IF r.popped THEN NoPending ELSE @]
          /\ msg' = [msg EXCEPT ![s] = r.out.msg]
          /\ cart' = [cart EXCEPT ![s] = r.out.cart]
          /\ resp' = [resp EXCEPT ![s] = r.out.resp]
          /\ added' = IF r.out.added THEN s ELSE "none"
          /\ replaced' = [replaced EXCEPT ![s] =
                r.out.added /\ pending[s].override
                            /\ pending[s].product_id \in cart_ids(cart[s])]
    /\ UNCHANGED <<sid, page, auth, dbVars, mailVars, reqVars, histVars>>

\* --------------------------------------------------- cart_remove (views.py)
\* a view that redirects without calling cart.remove
remove_outcome_keeps_line(c, p) ==
    IF p \notin Products THEN untouched(c, "not_found") ELSE untouched(c, "cart_detail")

\* lines 108-112: get_object_or_404, cart.remove(product), the redirect
remove_outcome(c, p) ==
    IF p \notin Products
    THEN untouched(c, "not_found")
    ELSE untouched(CartRemove(c, p), "cart_detail")

cart_remove(s, p) ==
    /\ CanRequest(s)
    /\ op' = [op EXCEPT ![s] = "cart_remove"]
    /\ nreq' = nreq + 1
    /\ LET out == remove_outcome(cart[s], p)
       IN /\ cart' = [cart EXCEPT ![s] = out.cart]
          /\ msg' = [msg EXCEPT ![s] = out.msg]
          /\ resp' = [resp EXCEPT ![s] = out.resp]
    /\ replaced' = [replaced EXCEPT ![s] = FALSE]
    /\ added' = "none"
    /\ UNCHANGED <<sid, page, pending, auth, dbVars, mailVars, reqVars, histVars>>

\* ------------------------------- login, register, logout (accounts/views.py)
\* a routing that looks at the next parameter first
get_success_url_next_first(pd, next) ==
    IF next # "" THEN next
    ELSE IF has_pending(pd) THEN "complete_pending" ELSE "default"

\* CustomLoginView.get_success_url: the resume endpoint when the session
\* holds a pending intent, else the next parameter, else the default of
\* LoginView
get_success_url(pd, next) ==
    IF has_pending(pd) THEN "complete_pending"
    ELSE IF next # "" THEN next
    ELSE "default"

\* CustomLoginView: the session's data survives a successful login.
Login(s, next) ==
    /\ CanRequest(s)
    /\ op' = [op EXCEPT ![s] = "Login"]
    /\ ~auth[s]
    /\ nreq' = nreq + 1
    /\ auth' = [auth EXCEPT ![s] = TRUE]
    /\ msg' = [msg EXCEPT ![s] = NoMessage]
    /\ resp' = [resp EXCEPT ![s] = get_success_url(pending[s], next)]
    /\ replaced' = [replaced EXCEPT ![s] = FALSE]
    /\ added' = "none"
    /\ UNCHANGED <<sid, page, cart, pending, dbVars, mailVars, reqVars, histVars>>

\* lines 51-54 of register: the redirect after login(request, user); the
\* view reads no next parameter
register_redirect(pd, next) ==
    IF has_pending(pd) THEN "complete_pending" ELSE "product_list"

\* register, a valid form: the new user is logged in on the same session
register(s, next) ==
    /\ CanRequest(s)
    /\ op' = [op EXCEPT ![s] = "register"]
    /\ ~auth[s]
    /\ nreq' = nreq + 1
    /\ auth' = [auth EXCEPT ![s] = TRUE]
    /\ msg' = [msg EXCEPT ![s] = NoMessage]
    /\ resp' = [resp EXCEPT ![s] = register_redirect(pending[s], next)]
    /\ replaced' = [replaced EXCEPT ![s] = FALSE]
    /\ added' = "none"
    /\ UNCHANGED <<sid, page, cart, pending, dbVars, mailVars, reqVars, histVars>>

\* logout_view: django.contrib.auth.logout flushes the session.
logout_view(s) ==
    /\ CanRequest(s)
    /\ op' = [op EXCEPT ![s] = "logout_view"]
    /\ auth[s]
    /\ nreq' = nreq + 1
    /\ auth' = [auth EXCEPT ![s] = FALSE]
    /\ cart' = [cart EXCEPT ![s] = <<>>]
    /\ pending' = [pending EXCEPT ![s] = NoPending]
    /\ msg' = [msg EXCEPT ![s] = NoMessage]
    /\ resp' = [resp EXCEPT ![s] = "product_list"]
    /\ replaced' = [replaced EXCEPT ![s] = FALSE]
    /\ added' = "none"
    /\ UNCHANGED <<sid, page, dbVars, mailVars, reqVars, histVars>>

\* ------------------------------------------------ ProductAdmin (shop/admin.py)
\* list_editable = [..., 'stock', ...]: staff set a product's stock.
AdminSetStock(p, n) ==
    /\ nreq < MaxRequests
    /\ nreq' = nreq + 1
    /\ n # stock[p]
    /\ stock' = [stock EXCEPT ![p] = n]
    /\ ver' = [ver EXCEPT ![p] = @ + 1]
    /\ supplied' = [supplied EXCEPT ![p] = @ + n - stock[p]]
    /\ added' = "none"
    /\ UNCHANGED <<sid, page, price, orders, items, mailVars, sessVars, reqVars,
                   crashed, alone, before, valver, decs>>

\* list_editable = ['price', ...]: staff set a product's price.
AdminSetPrice(p, n) ==
    /\ nreq < MaxRequests
    /\ nreq' = nreq + 1
    /\ n # price[p]
    /\ price' = [price EXCEPT ![p] = n]
    /\ added' = "none"
    /\ UNCHANGED <<sid, page, stock, orders, items, mailVars, sessVars, reqVars, histVars>>

\* -------------------------------------------------- order_create (views.py)
OutOfStock(l) ==
    [pid |-> l.pid, kind |-> "out_of_stock", n |-> 0, requested |-> l.quantity]

OnlyN(l, n) ==
    [pid |-> l.pid, kind |-> "only_n", n |-> n, requested |-> l.quantity]

\* a validation that only looks for products that are sold out
violates_sold_out_only(st, q) == st = 0 /\ q > 0

\* does the validation loop report this line, given the product it resolved?
violates(st, q) == st < q

\* a validation loop that stops at the first line it reports
RECURSIVE stock_errors_first_only(_, _)
stock_errors_first_only(c, st) ==
    IF c = <<>>
    THEN <<>>
    ELSE LET item == Head(c)
         IN IF violates(st[item.pid], item.quantity)
            THEN IF st[item.pid] = 0
                 THEN <<[pid |-> item.pid, kind |-> "out_of_stock", n |-> 0,
                         requested |-> item.quantity]>>
                 ELSE <<[pid |-> item.pid, kind |-> "only_n", n |-> st[item.pid],
                         requested |-> item.quantity]>>
            ELSE stock_errors_first_only(Tail(c), st)

\* a validation loop that runs once more at the end of the cart and reports
\* that there is nothing there
RECURSIVE stock_errors_reports_end(_, _)
stock_errors_reports_end(c, st) ==
    IF c = <<>>
    THEN <<[pid |-> 0, kind |-> "out_of_stock", n |-> 0, requested |-> 0]>>
    ELSE LET item == Head(c)
         IN (IF violates(st[item.pid], item.quantity)
             THEN <<[pid |-> item.pid, kind |-> "only_n", n |-> st[item.pid],
                     requested |-> item.quantity]>>
             ELSE <<>>) \o stock_errors_reports_end(Tail(c), st)

\* the first loop of order_create over the cart, st the stock of the
\* products the iteration resolved
RECURSIVE stock_errors(_, _)
stock_errors(c, st) ==
    IF c = <<>>
    THEN <<>>
    ELSE LET item == Head(c)
             here == IF violates(st[item.pid], item.quantity)
                     THEN IF st[item.pid] = 0
                          THEN <<OutOfStock(item)>>
                          ELSE <<OnlyN(item, st[item.pid])>>
                     ELSE <<>>
         IN here \o stock_errors(Tail(c), st)

\* Cart.__iter__: the products of the cart's lines, read from the database
\* when the iteration starts
resolve(c) ==
    [p \in Products |->
        IF p \in cart_ids(c)
        THEN [stock |-> stock[p], price |-> price[p]]
        ELSE [stock |-> 0, price |-> 0]]

\* product.stock of the instances an iteration resolved
stock_of(loaded) == [p \in Products |-> loaded[p].stock]

\* the request is over: its locals are gone
Finish(s, how) ==
    /\ pc' = [pc EXCEPT ![s] = "idle"]
    /\ form' = [form EXCEPT ![s] = NoContact]
    /\ result' = [result EXCEPT ![s] = how]
    /\ rcart' = [rcart EXCEPT ![s] = <<>>]
    /\ prods' = [prods EXCEPT ![s] = NoProducts]
    /\ idx' = [idx EXCEPT ![s] = 0]
    /\ alone' = [alone EXCEPT ![s] = FALSE]
    /\ before' = [before EXCEPT ![s] = NoSnapshot]

\* a form that accepts an empty required field
order_form_is_valid_always(posted) == TRUE

\* OrderCreateForm.is_valid(): no required field of the Order is empty
order_form_is_valid(posted) == posted # NoContact

\* POST with the contact form; Cart(request) and form.is_valid()
OrderCreatePost(s, posted) ==
    /\ CanRequest(s)
    /\ nreq' = nreq + 1
    /\ ord' = [ord EXCEPT ![s] = NoOrder]
    /\ report' = [report EXCEPT ![s] = <<>>]
    /\ added' = "none"
    /\ IF order_form_is_valid(posted)
       THEN /\ pc' = [pc EXCEPT ![s] = "validate"]
            /\ form' = [form EXCEPT ![s] = posted]
            /\ rcart' = [rcart EXCEPT ![s] = cart[sid[s]]]
            /\ result' = [result EXCEPT ![s] = "running"]
            /\ alone' = [t \in Sessions |->
                  IF t = s THEN \A u \in Sessions \ {s} : pc[u] = "idle" ELSE FALSE]
            /\ before' = [t \in Sessions |->
                  IF t = s /\ \A u \in Sessions \ {s} : pc[u] = "idle"
                  THEN [stock |-> stock, orders |-> Len(orders)]
                  ELSE NoSnapshot]
            /\ UNCHANGED <<prods, idx>>
       ELSE /\ result' = [result EXCEPT ![s] = "form_invalid"]
            /\ UNCHANGED <<pc, rcart, prods, idx, alone, before, form>>
    /\ UNCHANGED <<sid, page, dbVars, mailVars, sessVars, supplied, crashed, ver, valver, decs>>

\* lines 128-130 and 171-190: a GET of the order form builds Cart(request)
\* and an unbound form, filled in from the account of a logged-in user, and
\* renders the page; the query string is not read
OrderCreateGet(s) ==
    /\ CanRequest(s)
    /\ nreq' = nreq + 1
    /\ ord' = [ord EXCEPT ![s] = NoOrder]
    /\ report' = [report EXCEPT ![s] = <<>>]
    /\ added' = "none"
    /\ result' = [result EXCEPT ![s] = "form_shown"]
    /\ UNCHANGED <<pc, rcart, prods, idx, alone, before, form>>
    /\ UNCHANGED <<sid, page, dbVars, mailVars, sessVars, supplied, crashed, ver, valver, decs>>

\* lines 134-147: the validation loop and the rejection
Validate(s) ==
    /\ pc[s] = "validate"
    /\ LET errs == stock_errors(rcart[s], stock_of(resolve(rcart[s])))
       IN IF errs # <<>>
          THEN /\ report' = [report EXCEPT ![s] = errs]
               /\ Finish(s, "rejected")
               /\ UNCHANGED valver
          ELSE /\ pc' = [pc EXCEPT ![s] = "save_order"]
               /\ prods' = [prods EXCEPT ![s] = resolve(rcart[s])]
               /\ valver' = [valver EXCEPT ![s] = ver]
               /\ UNCHANGED <<report, result, rcart, idx, alone, before, form>>
    /\ UNCHANGED <<sid, page, dbVars, mailVars, sessVars, added, ord, nreq,
                   supplied, crashed, ver, decs>>

\* an Order that takes the user of the request, logged in or not
new_order_any_user(s, posted) ==
    [user |-> sid[s], contact |-> posted, status |-> "pending", paid |-> FALSE]

\* lines 149-151: form.save(commit=False) builds the Order of the posted
\* fields, with the defaults of its other columns and no user; the user is
\* set when the request's user is authenticated
new_order(s, posted) ==
    [user |-> IF auth[sid[s]] THEN sid[s] ELSE "anonymous", contact |-> posted,
     status |-> "pending", paid |-> FALSE]

\* lines 149-152: order = form.save(commit=False); order.user; order.save()
SaveOrder(s) ==
    /\ pc[s] = "save_order"
    /\ orders' = Append(orders, new_order(s, form[s]))
    /\ ord' = [ord EXCEPT ![s] = Len(orders) + 1]
    /\ pc' = [pc EXCEPT ![s] = "iterate"]
    /\ UNCHANGED <<sid, page, stock, price, items, mailVars, sessVars, added, rcart, prods,
                   idx, report, result, form, nreq, histVars>>

\* line 153: the second iteration over the cart resolves the products anew
Iterate(s) ==
    /\ pc[s] = "iterate"
    /\ prods' = [prods EXCEPT ![s] = resolve(rcart[s])]
    /\ idx' = [idx EXCEPT ![s] = 1]
    /\ pc' = [pc EXCEPT ![s] = IF rcart[s] = <<>> THEN "clear" ELSE "create_item"]
    /\ UNCHANGED <<sid, page, dbVars, mailVars, sessVars, added, rcart, ord, report, result,
                   form, nreq, histVars>>

\* a row priced at the product's price of the moment
order_item_live_price(o, item) ==
    [order |-> o, product |-> item.pid, price |-> price[item.pid],
     quantity |-> item.quantity]

\* lines 155-158: the row of a cart item, price=item['price']
order_item(o, item) ==
    [order |-> o, product |-> item.pid, price |-> item.price,
     quantity |-> item.quantity]

\* lines 154-159: OrderItem.objects.create(...)
CreateItem(s) ==
    /\ pc[s] = "create_item"
    /\ items' = items \cup {order_item(ord[s], rcart[s][idx[s]])}
    /\ pc' = [pc EXCEPT ![s] = "save_product"]
    /\ UNCHANGED <<sid, page, stock, price, orders, mailVars, sessVars, added, rcart, prods,
                   idx, ord, report, result, form, nreq, histVars>>

\* a decrement by one unit whatever the quantity
decremented_by_one(loaded, q) == loaded - 1

\* line 161: item['product'].stock -= item['quantity'], on the loaded instance
decremented(loaded, q) == loaded - q

\* cart.clear() indented into the loop
after_save_clear_in_loop(i, n) == "clear"

\* lines 153-164: the loop goes on with the next line; cart.clear() follows
\* the loop
after_save(i, n) == IF i = n THEN "clear" ELSE "create_item"

\* lines 161-162: the decrement and item['product'].save(), which writes
\* every column of the row from the loaded instance
SaveProduct(s) ==
    /\ pc[s] = "save_product"
    /\ LET item == rcart[s][idx[s]]
           p == item.pid
       IN /\ stock' = [stock EXCEPT ![p] =
                          decremented(prods[s][p].stock, item.quantity)]
          /\ price' = [price EXCEPT ![p] = prods[s][p].price]
          /\ ver' = [ver EXCEPT ![p] = @ + 1]
          /\ decs' = decs \cup {[pid |-> p, ver |-> valver[s][p], ord |-> ord[s]]}
    /\ idx' = [idx EXCEPT ![s] = @ + 1]
    /\ pc' = [pc EXCEPT ![s] = after_save(idx[s], Len(rcart[s]))]
    /\ UNCHANGED <<sid, page, orders, items, mailVars, sessVars, added, rcart, prods, ord,
                   report, result, form, nreq, supplied, crashed, alone, before,
                   valver>>

\* line 164: cart.clear()
ClearCart(s) ==
    /\ pc[s] = "clear"
    /\ cart' = [cart EXCEPT ![sid[s]] = <<>>]
    /\ pc' = [pc EXCEPT ![s] = "email"]
    /\ UNCHANGED <<sid, page, pending, auth, msg, resp, replaced, op, added, dbVars,
                   mailVars, rcart, prods, idx, ord, report, result, form, nreq,
                   histVars>>

\* the function without its try/except
send_unguarded(ok) == IF ok THEN "True" ELSE "raised"

\* shop/utils.py send_order_confirmation_email: True when the mail went out;
\* every exception of rendering or sending is caught, logged and answered
\* with False.  "raised" is the outcome the function never has.
send_order_confirmation_email(ok) == IF ok THEN "True" ELSE "False"

\* lines 168-170: the confirmation email and the response; order_create
\* wraps the call in no try, so an exception of it would leave the view
SendEmail(s, ok) ==
    /\ pc[s] = "email"
    /\ LET sent == send_order_confirmation_email(ok)
       IN /\ notified' = IF sent = "True" THEN notified \cup {ord[s]} ELSE notified
          /\ mailFailed' = IF sent = "True" THEN mailFailed ELSE mailFailed \cup {ord[s]}
          /\ Finish(s, IF sent = "raised" THEN "error" ELSE "created")
          /\ crashed' = (crashed \/ sent = "raised")
    /\ UNCHANGED <<sid, page, dbVars, sessVars, added, ord, report, nreq, supplied, ver,
                   valver, decs>>

\* a database statement of the request raises (an empty cart's iteration
\* sends none): the exception leaves the view, the response is an error page
\* and nothing the request did is undone
DbFail(s) ==
    /\ \/ pc[s] \in {"save_order", "create_item", "save_product"}
       \/ pc[s] = "iterate" /\ rcart[s] # <<>>
    /\ Finish(s, "error")
    /\ crashed' = TRUE
    /\ UNCHANGED <<sid, page, dbVars, mailVars, sessVars, added, ord, report, nreq,
                   supplied, ver, valver, decs>>

\* the order_create requests of session s that post a form of F, and their
\* steps
Checkout(s, F) ==
    \/ \E posted \in F : OrderCreatePost(s, posted)
    \/ Validate(s)
    \/ SaveOrder(s)
    \/ Iterate(s)
    \/ CreateItem(s)
    \/ SaveProduct(s)
    \/ ClearCart(s)
    \/ \E ok \in BOOLEAN : SendEmail(s, ok)

order_create(s) == OrderCreateGet(s) \/ Checkout(s, Forms)

\* ------------------------------------------------ order pages (shop/views.py)
\* request.user: the account of the session, named after it, or AnonymousUser
request_user(s) == IF auth[sid[s]] THEN sid[s] ELSE "anonymous"

\* User.is_staff: the account of the second browser is a staff account; its
\* holder is a guest of the shop until logging in
is_staff(u) == u = "s2"

\* the ids of the Order rows whose user is u
orders_of(u, rows) == {o \in 1..Len(rows) : rows[o].user = u}

\* line 40 and line 49: the customer pages are for logged-in users who are
\* not staff
is_customer(u) == u # "anonymous" /\ ~is_staff(u)

\* lines 40-44: Order.objects.filter(user=request.user), or no order
history_orders(u, rows) ==
    IF ~is_customer(u) THEN {} ELSE orders_of(u, rows)

\* a lookup by id alone
detail_by_id_only(u, rows, order_id) ==
    IF ~is_customer(u) THEN [status |-> "ok", orders |-> {}]
    ELSE IF order_id \in 1..Len(rows)
         THEN [status |-> "ok", orders |-> {order_id}]
         ELSE [status |-> "not_found", orders |-> {}]

\* lines 49-53: the page without an order, or
\* get_object_or_404(Order, id=order_id, user=request.user)
detail(u, rows, order_id) ==
    IF ~is_customer(u) THEN [status |-> "ok", orders |-> {}]
    ELSE IF order_id \in orders_of(u, rows)
         THEN [status |-> "ok", orders |-> {order_id}]
         ELSE [status |-> "not_found", orders |-> {}]

\* a request of session s that reads the orders and answers with a page
OrderPage(s, shown) ==
    /\ CanRequest(s)
    /\ nreq' = nreq + 1
    /\ page' = [page EXCEPT ![s] = shown]
    /\ added' = "none"
    /\ UNCHANGED <<sid, dbVars, mailVars, sessVars, reqVars, histVars>>

order_history(s) ==
    OrderPage(s, [view |-> "order_history", user |-> request_user(s),
                  asked |-> 0, status |-> "ok",
                  orders |-> history_orders(request_user(s), orders)])

order_detail(s, order_id) ==
    LET found == detail(request_user(s), orders, order_id)
    IN OrderPage(s, [view |-> "order_detail", user |-> request_user(s),
                     asked |-> order_id, status |-> found.status,
                     orders |-> found.orders])

\* the order pages of session s: the history and the detail of every order
\* id in use and of the next one
OrderPages(s) ==
    \/ order_history(s)
    \/ \E order_id \in 1..(Len(orders) + 1) : order_detail(s, order_id)

\* the cart and account requests of session s that name an id of P and post
\* a quantity of Q and an override of O
Traffic(s, P, Q, O) ==
    \/ \E p \in P, rq \in Q, rov \in O : cart_add(s, p, rq, rov)
    \/ complete_pending_add(s)
    \/ \E p \in P : cart_remove(s, p)
    \/ \E next \in NextUrls : Login(s, next)
    \/ \E next \in NextUrls : register(s, next)
    \/ logout_view(s)

Staff == \E p \in Products, n \in 0..MaxStock : AdminSetStock(p, n)

Pricing == \E p \in Products, n \in Prices : AdminSetPrice(p, n)

\* what the shop's own pages post: a product of the catalog, a quantity the
\* number field holds, the override box checked or not
PageQuantities == {Texts[n] : n \in 0..MaxQty}
PageOverrides == {"False", "on"}

\* the cart traffic of the shop's pages, every session logging in through
\* the login page as cart_add sends it there: every request but order_create
NextCart ==
    \/ \E s \in Sessions, p \in Products, rq \in PageQuantities,
          rov \in PageOverrides : cart_add(s, p, rq, rov)
    \/ \E s \in Sessions : complete_pending_add(s)
    \/ \E s \in Sessions, p \in Products : cart_remove(s, p)
    \/ \E s \in Sessions : Login(s, "")
    \/ \E s \in Sessions : logout_view(s)
    \/ Staff

\* one shopper, the guest, who posts whatever a client can post
NextShopper ==
    \/ Traffic("s2", ProductIds, RawQuantities, RawOverrides)
    \/ Staff

\* a customer who shops on the pages and orders while staff change prices
NextPrice ==
    \/ \E p \in Products, rq \in PageQuantities, rov \in PageOverrides :
          cart_add("s1", p, rq, rov)
    \/ \E p \in Products : cart_remove("s1", p)
    \/ Pricing
    \/ order_create("s1")

\* the contact fields a client fills the order form with when it fills
\* them all
OwnContact(s) == IF s = "s1" THEN "ann" ELSE "bob"

\* order assembly: the steps of the order_create requests in flight, each
\* client posting its own contact fields or leaving one out
NextOrder ==
    \/ \E s \in Sessions : Checkout(s, {OwnContact(s), NoContact})
    \/ \E s \in Sessions : DbFail(s)

Next ==
    \/ \E s \in Sessions : Traffic(s, ProductIds, RawQuantities, RawOverrides)
    \/ Staff
    \/ Pricing
    \/ \E s \in Sessions : order_create(s)
    \/ \E s \in Sessions : DbFail(s)
    \/ \E s \in Sessions : OrderPages(s)

Spec == Init /\ [][Next]_vars

\* the cart traffic on its own
SpecCart == Init /\ [][NextCart]_vars

\* the shopper on their own
SpecShopper == Init /\ [][NextShopper]_vars

\* the customer and the price list
SpecPrice == Init /\ [][NextPrice]_vars

\* ------------------------------------------------ order assembly on its own
\* The carts cart_add can build: lines of distinct products, in any order.
Lines == {[pid |-> p, quantity |-> q, price |-> Price(p)] :
             p \in Products, q \in 1..MaxQty}

Carts == {c \in UNION {[1..n -> Lines] : n \in 0..Cardinality(Products)} :
             \A i, j \in 1..Len(c) : c[i].pid = c[j].pid => i = j}

\* A stock the staff has set, a logged-in customer, a guest, no request
\* running and one request left for each client.
OrderStart ==
    /\ stock \in [Products -> 0..MaxStock]
    /\ price = [p \in Products |-> Price(p)]
    /\ pending = [s \in Sessions |-> NoPending]
    /\ auth = [s \in Sessions |-> s = "s1"]
    /\ msg = [s \in Sessions |-> NoMessage]
    /\ resp = [s \in Sessions |-> "none"]
    /\ replaced = [s \in Sessions |-> FALSE]
    /\ op = [s \in Sessions |-> "none"]
    /\ added = "none"
    /\ orders = <<>>
    /\ items = {}
    /\ notified = {}
    /\ mailFailed = {}
    /\ pc = [s \in Sessions |-> "idle"]
    /\ rcart = [s \in Sessions |-> <<>>]
    /\ prods = [s \in Sessions |-> NoProducts]
    /\ idx = [s \in Sessions |-> 0]
    /\ ord = [s \in Sessions |-> NoOrder]
    /\ report = [s \in Sessions |-> <<>>]
    /\ form = [s \in Sessions |-> NoContact]
    /\ page = [s \in Sessions |-> NoPage]
    /\ result = [s \in Sessions |-> "none"]
    /\ nreq = MaxRequests - Cardinality(Sessions)
    /\ supplied = stock
    /\ crashed = FALSE
    /\ alone = [s \in Sessions |-> FALSE]
    /\ before = [s \in Sessions |-> NoSnapshot]
    /\ ver = [p \in Products |-> 0]
    /\ valver = [s \in Sessions |-> [p \in Products |-> 0]]
    /\ decs = {}

\* A logged-in customer and a guest, each in a session of its own, whose
\* carts are filled: the states order_create is sent to.
InitOrder ==
    /\ OrderStart
    /\ sid = [s \in Sessions |-> s]
    /\ cart \in [Sessions -> Carts]

\* The logged-in customer with the order form open in two tabs of one
\* browser: both clients send the cookie of the customer's session.
InitTabs ==
    /\ OrderStart
    /\ sid = [s \in Sessions |-> "s1"]
    /\ cart \in {c \in [Sessions -> Carts] : c["s2"] = <<>>}

SpecOrder == InitOrder /\ [][NextOrder]_vars

\* the two tabs
SpecTabs == InitTabs /\ [][NextOrder]_vars

\* a customer and a guest who change their carts on the pages and order one
\* after the other: an order_create request is sent when no other one is
\* running, and every statement of it succeeds
NextSerial ==
    \/ \E s \in Sessions :
          /\ \A t \in Sessions \ {s} : pc[t] = "idle"
          /\ Checkout(s, {OwnContact(s), NoContact})
    \/ \E p \in Products, rq \in PageQuantities : cart_add("s1", p, rq, "False")
    \/ \E s \in Sessions, p \in Products : cart_remove(s, p)

SpecSerial == InitOrder /\ [][NextSerial]_vars

\* the customer and the guest at the order form: each opens it, or submits
\* it with its contact fields or with one left out, while the other's
\* request may be running
NextForm ==
    \/ \E s \in Sessions : OrderCreateGet(s)
    \/ \E s \in Sessions : Checkout(s, {OwnContact(s), NoContact})

SpecForm == InitOrder /\ [][NextForm]_vars

\* a customer who shops on the pages, and a guest who may log in to a staff
\* account, who order what their carts hold and open the order pages
NextHistory ==
    \/ \E p \in Products, rq \in PageQuantities : cart_add("s1", p, rq, "False")
    \/ \E s \in Sessions : Checkout(s, {OwnContact(s)})
    \/ \E s \in Sessions : Login(s, "")
    \/ \E s \in Sessions : logout_view(s)
    \/ \E s \in Sessions : OrderPages(s)

SpecHistory == Init /\ [][NextHistory]_vars

\* ------------------------------------------------------------------ claims
RECURSIVE SumQuantity(_)
SumQuantity(S) ==
    IF S = {} THEN 0
    ELSE LET it == CHOOSE x \in S : TRUE
         IN it.quantity + SumQuantity(S \ {it})

\* the units of product p the OrderItem rows account for
Sold(p) == SumQuantity({it \in items : it.product = p})

InFlight(s) == pc[s] # "idle"

\* the OrderItem rows order o should have for the lines of cart c
ItemsFor(o, c) ==
    {[order |-> o, product |-> c[i].pid, price |-> c[i].price,
      quantity |-> c[i].quantity] : i \in 1..Len(c)}

ItemsOf(o) == {it \in items : it.order = o}

\* C1: whatever the interleaving of the order_create requests of different
\* sessions, no product's stock is ever negative, and no two requests
\* decrement a product after both validated against the same stock value.
C1_StockNeverNegative ==
    /\ \A p \in Products : stock[p] >= 0
    /\ \A d, e \in decs : (d.pid = e.pid /\ d.ver = e.ver) => d.ord = e.ord

\* C2: once every order_create request has been answered, none of them
\* having died of a persistence failure, each product's stock is the units
\* put on sale minus the quantities of its OrderItem rows.
C2_NoLostDecrement ==
    ((\A s \in Sessions : ~InFlight(s)) /\ ~crashed)
        => \A p \in Products : stock[p] = supplied[p] - Sold(p)

\* C6: after a persistence failure of an order_create request no Order row,
\* no OrderItem row and no stock decrement of that request is visible.
C6_AtomicCommit ==
    \A s \in Sessions :
        (result[s] = "error" /\ ~InFlight(s))
            => /\ ord[s] \notin DOMAIN orders
               /\ ItemsOf(ord[s]) = {}
               /\ \A d \in decs : d.ord # ord[s]

\* C3: when an order_create request finds a cart line whose quantity exceeds
\* the stock it reads, the request ends rejected and has created no Order
\* and no OrderItem, changed no stock, sent no notification and left every
\* cart as it was.
C3_RejectedOrderChangesNothing ==
    [][\A s \in Sessions :
          (/\ pc[s] = "validate"
           /\ pc'[s] # "validate"
           /\ \E i \in 1..Len(cart[s]) : cart[s][i].quantity > stock[cart[s][i].pid])
          => /\ result'[s] = "rejected"
             /\ pc'[s] = "idle"
             /\ orders' = orders
             /\ items' = items
             /\ stock' = stock
             /\ notified' = notified
             /\ mailFailed' = mailFailed
             /\ cart' = cart]_vars

\* a cart of two lines, one of them over the stock, was rejected
C3_Witness ==
    \E s \in Sessions :
        /\ result[s] = "rejected"
        /\ Len(cart[s]) = 2
        /\ Len(report[s]) = 1
        /\ orders = <<>>

\* C4: the report of a rejected order_create has exactly one entry for every
\* cart line whose quantity exceeds the stock read and none for any other
\* line; an entry says "out of stock" exactly when that stock is 0 and
\* otherwise "only N available" with N the stock read.
C4_ReportListsEveryViolator ==
    [][\A s \in Sessions :
          (pc[s] = "validate" /\ result'[s] = "rejected")
          => LET r == report'[s]
                 c == cart[s]
             IN /\ \A i \in 1..Len(c) :
                      Cardinality({k \in 1..Len(r) : r[k].pid = c[i].pid})
                          = IF c[i].quantity > stock[c[i].pid] THEN 1 ELSE 0
                /\ \A k \in 1..Len(r) :
                      /\ r[k].pid \in cart_ids(c)
                      /\ r[k].kind \in {"out_of_stock", "only_n"}
                      /\ r[k].kind = "out_of_stock" <=> stock[r[k].pid] = 0
                      /\ r[k].kind = "only_n" => r[k].n = stock[r[k].pid]]_vars

\* a report of two entries, one of each form
C4_Witness ==
    \E s \in Sessions :
        /\ result[s] = "rejected"
        /\ Len(report[s]) = 2
        /\ report[s][1].kind # report[s][2].kind

\* C5: an order_create request that runs alone passes the validation when
\* every line fits the stock, and by the time it sends the notification it
\* has created exactly one Order, exactly one OrderItem per cart line with
\* the line's price and quantity, lowered each product's stock by the line's
\* quantity and emptied the cart.
C5_LoneOrderCommits ==
    /\ [](\A s \in Sessions :
            (pc[s] = "email" /\ alone[s])
            => /\ cart[s] = <<>>
               /\ Len(orders) = before[s].orders + 1
               /\ ord[s] = Len(orders)
               /\ ItemsOf(ord[s]) = ItemsFor(ord[s], rcart[s])
               /\ Cardinality(ItemsOf(ord[s])) = Len(rcart[s])
               /\ \A p \in Products :
                     stock[p] = before[s].stock[p] - current_cart_quantity(rcart[s], p))
    /\ [][\A s \in Sessions :
            (/\ pc[s] = "validate"
             /\ pc'[s] # "validate"
             /\ \A i \in 1..Len(cart[s]) : cart[s][i].quantity <= stock[cart[s][i].pid])
            => pc'[s] = "save_order"]_vars

\* a lone request has committed a cart of two lines, one of quantity two
C5_Witness ==
    \E s \in Sessions :
        /\ pc[s] = "email"
        /\ alone[s]
        /\ Len(rcart[s]) = 2
        /\ \E i \in 1..2 : rcart[s][i].quantity = 2

\* the request has saved its Order, an OrderItem for every line and every
\* stock decrement
Committed(s) ==
    /\ ord[s] \in DOMAIN orders
    /\ ItemsFor(ord[s], rcart[s]) \subseteq items
    /\ \A i \in 1..Len(rcart[s]) :
          \E d \in decs : d.ord = ord[s] /\ d.pid = rcart[s][i].pid

\* C7: when the confirmation email fails, the request still ends with the
\* order created: the failure is logged, nothing is raised, the Order, its
\* OrderItems and the stock decrements stay and the cart stays empty.
C7_MailFailureKeepsOrder ==
    [][\A s \in Sessions :
          (pc[s] = "email" /\ pc'[s] # "email" /\ ord[s] \notin notified')
          => /\ result'[s] = "created"
             /\ crashed' = crashed
             /\ mailFailed' = mailFailed \cup {ord[s]}
             /\ Committed(s)
             /\ orders' = orders
             /\ items' = items
             /\ stock' = stock
             /\ cart'[s] = <<>>]_vars

\* an order with an item whose confirmation email failed
C7_Witness ==
    \E s \in Sessions :
        /\ result[s] = "created"
        /\ ord[s] \in mailFailed
        /\ ItemsOf(ord[s]) # {}

\* C8: a request empties the cart only after it has saved its Order, every
\* OrderItem and every stock decrement, and before the notification; the
\* notification of an order is invoked only by the request that committed
\* it, after that request emptied the cart; a rejected request does neither.
C8_CommitThenClearThenNotify ==
    [][\A s \in Sessions :
          /\ (InFlight(s) /\ cart'[s] # cart[s])
                => /\ cart'[s] = <<>>
                   /\ Committed(s)
                   /\ ord[s] \notin notified \cup mailFailed
          /\ (InFlight(s) /\ ord[s] \in (notified' \cup mailFailed') \ (notified \cup mailFailed))
                => /\ Committed(s)
                   /\ cart[s] = <<>>
          /\ (InFlight(s) /\ result'[s] \in {"rejected", "error"})
                => /\ cart' = cart
                   /\ notified' = notified
                   /\ mailFailed' = mailFailed
          /\ (~InFlight(s) /\ ~InFlight(s)')
                => /\ cart'[s] = cart[s]
                   /\ (notified' \cup mailFailed') \ (notified \cup mailFailed)
                         \subseteq {ord[t] : t \in Sessions \ {s}}]_vars

\* a request has committed two lines and emptied the cart and is about to
\* send the notification
C8_Witness ==
    \E s \in Sessions :
        /\ pc[s] = "email"
        /\ Len(rcart[s]) = 2
        /\ cart[s] = <<>>
        /\ ord[s] \notin notified \cup mailFailed

\* C9: an authenticated cart_add of a positive quantity, and a resumed
\* pending add of any quantity, for a product whose stock is 0 is answered
\* "out of stock" whatever the quantity and the override flag, and leaves
\* every cart as it was.
C9_SoldOutAddRejected ==
    [][\A s \in Sessions :
          /\ \A p \in Products, q \in 1..MaxQty, rov \in RawOverrides :
                (auth[s] /\ stock[p] = 0 /\ cart_add(s, p, Texts[q], rov))
                => (msg'[s].kind = "out_of_stock" /\ cart' = cart)
          /\ (/\ pending[s].product_id \in Products
              /\ stock[pending[s].product_id] = 0
              /\ complete_pending_add(s))
             => (msg'[s].kind = "out_of_stock" /\ cart' = cart)]_vars

\* a guest's resumed add and a customer's direct add were both answered
\* "out of stock"
C9_Witness ==
    \E s, t \in Sessions :
        /\ ~auth[s]
        /\ msg[s].kind = "out_of_stock"
        /\ pending[s] = NoPending
        /\ auth[t]
        /\ msg[t].kind = "out_of_stock"

\* C10: an authenticated cart_add of a positive quantity q for a product in
\* stock, with effectiveTotal q under override and the line's quantity (0 if
\* absent) plus q otherwise: when effectiveTotal exceeds the stock the
\* answer is "only N available" with N the stock and the cart is unchanged,
\* otherwise the product's line ends with quantity effectiveTotal.
C10_EffectiveTotal ==
    [][\A s \in Sessions, p \in Products, q \in 1..MaxQty, ov \in BOOLEAN :
          (/\ auth[s]
           /\ stock[p] > 0
           /\ nreq' = nreq + 1
           /\ cart_add(s, p, Texts[q], IF ov THEN "on" ELSE "False"))
          => LET had == {i \in 1..Len(cart[s]) : cart[s][i].pid = p}
                 effectiveTotal ==
                     IF ov \/ had = {} THEN q
                     ELSE cart[s][CHOOSE i \in had : TRUE].quantity + q
                 got == {i \in 1..Len(cart'[s]) : cart'[s][i].pid = p}
             IN IF effectiveTotal > stock[p]
                THEN /\ msg'[s] = [kind |-> "only_n", n |-> stock[p]]
                     /\ cart' = cart
                ELSE /\ Cardinality(got) = 1
                     /\ \A i \in got : cart'[s][i].quantity = effectiveTotal
                     /\ msg'[s].kind \notin {"only_n", "out_of_stock"}]_vars

\* an add on top of an existing line was refused for want of stock
C10_Witness ==
    \E s \in Sessions, p \in Products :
        /\ auth[s]
        /\ msg[s] = [kind |-> "only_n", n |-> stock[p]]
        /\ stock[p] > 0
        /\ current_cart_quantity(cart[s], p) >= 1

\* C11: a cart_add of a session that is not logged in stores the product
\* id, the posted quantity and the override flag as the session's pending
\* intent in place of the one it held, if any, answers with the redirect to
\* the login page and changes no cart and no other session's intent.
C11_GuestAddStoresIntent ==
    [][\A s \in Sessions :
          (~auth[s] /\ resp'[s] = "login")
          => \A p \in ProductIds, rq \in RawQuantities, ov \in BOOLEAN :
                cart_add(s, p, rq, IF ov THEN "on" ELSE "False")
                => /\ pending'[s] = [product_id |-> p, quantity |-> rq,
                                     override |-> ov]
                   /\ \A t \in Sessions \ {s} : pending'[t] = pending[t]
                   /\ resp'[s] = "login"
                   /\ cart' = cart]_vars

\* a guest's second add has replaced the intent of the first
C11_Witness ==
    \E s \in Sessions :
        /\ ~auth[s]
        /\ replaced[s]
        /\ resp[s] = "login"
        /\ pending[s] = [product_id |-> 2, quantity |-> "2", override |-> TRUE]
        /\ cart[s] = <<>>

\* C12: a cart_add POST of a client that has not logged in, for a quantity
\* within the product's stock, leaves a line for the product with that
\* quantity in the session's cart.
C12_GuestAddFillsCart ==
    [][\A s \in Sessions :
          (~auth[s] /\ nreq' = nreq + 1)
          => \A p \in Products, q \in 1..MaxQty :
                (q <= stock[p] /\ cart_add(s, p, Texts[q], "False"))
                => \E i \in 1..Len(cart'[s]) :
                      cart'[s][i].pid = p /\ cart'[s][i].quantity = q]_vars

\* C13: after an anonymous cart_add of product p with quantity q and a
\* login, complete_pending_add, run while 1 <= q <= stock of p and the cart
\* has no line for p, leaves one line for p, of quantity exactly q, in the
\* cart and no pending intent in the session; a complete_pending_add that
\* finds no pending intent changes neither the cart nor the session.
C13_ResumeAddsPostedQuantity ==
    [][\A s \in Sessions :
          /\ (/\ auth[s]
              /\ pending[s].product_id \in Products
              /\ pending[s].product_id \notin cart_ids(cart[s])
              /\ \E q \in 1..stock[pending[s].product_id] :
                    pending[s].quantity = Texts[q]
              /\ complete_pending_add(s))
             => LET p == pending[s].product_id
                    got == {i \in 1..Len(cart'[s]) : cart'[s][i].pid = p}
                IN /\ Cardinality(got) = 1
                   /\ \A i \in got : cart'[s][i].quantity = int(pending[s].quantity)
                   /\ pending'[s] = NoPending
          /\ (auth[s] /\ pending[s] = NoPending /\ complete_pending_add(s))
             => (cart' = cart /\ pending' = pending)]_vars

\* a customer's cart holds the two units posted before the login, the
\* intent is gone and the answer is the one of complete_pending_add
C13_Witness ==
    \E s \in Sessions :
        /\ auth[s]
        /\ op[s] = "complete_pending_add"
        /\ msg[s] = AddedMessage
        /\ resp[s] = "cart_detail"
        /\ pending[s] = NoPending
        /\ \E i \in 1..Len(cart[s]) : cart[s][i].quantity = 2

\* C14: whatever the outcome of a complete_pending_add, the session holds no
\* pending intent after it, and the request changes the cart only when it
\* found an intent, which it then removed: one intent, at most one add.
C14_IntentConsumedOnce ==
    [][\A s \in Sessions :
          (nreq' = nreq + 1 /\ auth' = auth /\ complete_pending_add(s))
          => /\ pending'[s] = NoPending
             /\ cart'[s] # cart[s] => pending[s] # NoPending]_vars

\* C15: a complete_pending_add of a session that holds no pending intent
\* changes no cart, no product's stock and no session's intent and answers
\* with the redirect to the cart page.
C15_ResumeWithoutIntent ==
    [][\A s \in Sessions :
          (pending[s] = NoPending /\ complete_pending_add(s))
          => /\ cart' = cart
             /\ stock' = stock
             /\ pending' = pending
             /\ msg'[s] = NoMessage
             /\ resp'[s] = "cart_detail"]_vars

\* a customer whose cart has a line was answered by complete_pending_add
\* with nothing pending and nothing flashed
C15_Witness ==
    \E s \in Sessions :
        /\ op[s] = "complete_pending_add"
        /\ msg[s] = NoMessage
        /\ resp[s] = "cart_detail"
        /\ pending[s] = NoPending
        /\ cart[s] # <<>>

\* C16 as claimed: after a successful login or registration the redirect
\* goes to the resume endpoint when the session holds a pending intent,
\* whatever the next parameter, and otherwise to the next parameter when
\* one is given and else to the default landing page.
C16_LoginOrRegisterRouting ==
    [][\A s \in Sessions :
          (~auth[s] /\ auth'[s])
          => \A next \in NextUrls :
                (Login(s, next) \/ register(s, next))
                => resp'[s] = IF pending[s] # NoPending THEN "complete_pending"
                              ELSE IF next # "" THEN next
                              ELSE IF op'[s] = "Login" THEN "default"
                              ELSE "product_list"]_vars

\* C16: after a successful login the redirect goes to the resume endpoint
\* when the session holds a pending intent, whatever the next parameter,
\* and otherwise to the next parameter when one is given and else to the
\* default landing page; after a successful registration it goes to the
\* resume endpoint when the session holds a pending intent and otherwise to
\* the product list, whatever the next parameter.
C16_LoginRouting ==
    [][\A s \in Sessions :
          (~auth[s] /\ auth'[s])
          => \A next \in NextUrls :
                /\ Login(s, next)
                   => resp'[s] = IF pending[s] # NoPending THEN "complete_pending"
                                 ELSE IF next # "" THEN next
                                 ELSE "default"
                /\ register(s, next)
                   => resp'[s] = IF pending[s] # NoPending THEN "complete_pending"
                                 ELSE "product_list"]_vars

\* a guest with a pending intent has logged in and is sent to the resume
\* endpoint
C16_Witness ==
    \E s \in Sessions :
        /\ op[s] = "Login"
        /\ auth[s]
        /\ pending[s] # NoPending
        /\ resp[s] = "complete_pending"

\* C17: a complete_pending_add that finds an intent accepts or rejects as
\* the cart_add of a logged-in user would, in the same state, for every
\* request that is stored as that intent, and leaves the cart that
\* cart_add would leave.
C17_ResumeAsDirectAdd ==
    [][\A s \in Sessions :
          (pending[s] # NoPending /\ complete_pending_add(s))
          => \A rov \in RawOverrides :
                save_intent(NoPending, pending[s].product_id,
                            pending[s].quantity, rov) = pending[s]
                => LET direct == direct_add(cart[s], pending[s].product_id,
                                            pending[s].quantity, rov)
                   IN /\ cart'[s] = direct.cart
                      /\ (msg'[s] = AddedMessage) <=> direct.added]_vars

\* C18: every line of every cart has a quantity of at least 1.
C18_LinesArePositive ==
    \A s \in Sessions : \A i \in 1..Len(cart[s]) : cart[s][i].quantity >= 1

\* C19 as claimed: cart_remove answers ok for any product id and leaves the
\* cart without a line for it; with no such line the cart is unchanged, and
\* a second removal changes nothing.
C19_RemoveIsTotal ==
    [][\A s \in Sessions :
          (op'[s] = "cart_remove" /\ nreq' = nreq + 1)
          => \A p \in ProductIds :
                cart_remove(s, p)
                => /\ resp'[s] = "cart_detail"
                   /\ p \notin cart_ids(cart'[s])
                   /\ p \notin cart_ids(cart[s]) => cart' = cart
                   /\ remove_outcome(cart'[s], p).cart = cart'[s]]_vars

\* C19: cart_remove answers ok for the id of any product of the catalog and
\* leaves the cart without a line for it; with no such line the cart is
\* unchanged, and a second removal changes nothing.
C19_RemoveIsIdempotent ==
    [][\A s \in Sessions :
          (op'[s] = "cart_remove" /\ nreq' = nreq + 1)
          => \A p \in Products :
                cart_remove(s, p)
                => /\ resp'[s] = "cart_detail"
                   /\ p \notin cart_ids(cart'[s])
                   /\ p \notin cart_ids(cart[s]) => cart' = cart
                   /\ remove_outcome(cart'[s], p).cart = cart'[s]]_vars

\* a removal has left a cart that holds a line of the other product
C19_Witness ==
    \E s \in Sessions :
        /\ op[s] = "cart_remove"
        /\ resp[s] = "cart_detail"
        /\ Len(cart[s]) = 1

\* the lines of cart c for products other than p, in order
OtherLines(c, p) == SelectSeq(c, LAMBDA l : l.pid # p)

\* C20: an accepted add with the override flag, direct or resumed, leaves
\* exactly one line for the product, of exactly the quantity asked for,
\* whether or not the cart had such a line and whatever its quantity was,
\* and leaves the lines of the other products as they were.
C20_OverrideSetsQuantity ==
    [][\A s \in Sessions :
          /\ auth[s]
             => \A p \in Products, q \in 1..MaxQty :
                   (q <= stock[p] /\ cart_add(s, p, Texts[q], "on"))
                   => /\ current_cart_quantity(cart'[s], p) = q
                      /\ Cardinality({i \in 1..Len(cart'[s]) : cart'[s][i].pid = p}) = 1
                      /\ OtherLines(cart'[s], p) = OtherLines(cart[s], p)
          /\ (/\ pending[s].override
              /\ msg'[s] = AddedMessage
              /\ complete_pending_add(s))
             => LET p == pending[s].product_id
                IN /\ current_cart_quantity(cart'[s], p) = int(pending[s].quantity)
                   /\ Cardinality({i \in 1..Len(cart'[s]) : cart'[s][i].pid = p}) = 1
                   /\ OtherLines(cart'[s], p) = OtherLines(cart[s], p)]_vars

\* a customer's override add has written the quantity of one of the two
\* lines of the cart
C20_Witness ==
    \E s \in Sessions :
        /\ op[s] = "cart_add"
        /\ auth[s]
        /\ replaced[s]
        /\ Len(cart[s]) = 2
        /\ \E i \in 1..2 : cart[s][i].quantity = 1
\* the line of product p in cart c
line_of(c, p) == c[line_index(c, p)]

\* C21: an add without override that cart_add accepts starts a line with
\* the posted quantity and the product's price of the moment when the cart
\* has no line for the product, and otherwise adds the posted quantity to
\* the one line of the product and keeps the price the line was started
\* with, whatever the product's price has become; two such adds of q1 and
\* q2 leave one line of q1 + q2 at the price of the first add.
C21_AccumulateKeepsFirstPrice ==
    [][\A s \in Sessions, p \in Products, q \in 1..MaxQty :
          (/\ auth[s]
           /\ added' = s
           /\ cart_add(s, p, Texts[q], "False"))
          => /\ Cardinality({i \in 1..Len(cart'[s]) : cart'[s][i].pid = p}) = 1
             /\ line_of(cart'[s], p) =
                   IF p \in cart_ids(cart[s])
                   THEN [pid |-> p,
                         quantity |-> line_of(cart[s], p).quantity + q,
                         price |-> line_of(cart[s], p).price]
                   ELSE [pid |-> p, quantity |-> q, price |-> price[p]]
             /\ \A r \in Products \ {p} :
                   /\ r \in cart_ids(cart'[s]) <=> r \in cart_ids(cart[s])
                   /\ r \in cart_ids(cart[s])
                         => line_of(cart'[s], r) = line_of(cart[s], r)]_vars

\* a second add has grown a line to two units at the price of the first
\* add, which is no longer the product's price
C21_Witness ==
    \E s \in Sessions, p \in Products :
        /\ op[s] = "cart_add"
        /\ added = s
        /\ ~replaced[s]
        /\ p \in cart_ids(cart[s])
        /\ line_of(cart[s], p).quantity = 2
        /\ line_of(cart[s], p).price = Price(p)
        /\ price[p] # Price(p)
        /\ Len(cart[s]) = 1
\* the sum, over the products of P, of the price times the quantity of the
\* product's line in cart c
RECURSIVE LineTotals(_, _)
LineTotals(c, P) ==
    IF P = {} THEN 0
    ELSE LET p == CHOOSE x \in P : TRUE
         IN line_of(c, p).price * line_of(c, p).quantity + LineTotals(c, P \ {p})

\* C22: get_total_price() of a cart is the sum, over the products the cart
\* has a line for, of the line's price times its quantity, and 0 for an
\* empty cart; it follows the cart: an add that cart_add accepts changes it
\* by the line's price times the change of the line's quantity (the
\* product's price for a new line), a removal lowers it by the total of the
\* removed line, and a refused add leaves it as it was.
C22_TotalFollowsLines ==
    /\ [](\A s \in Sessions :
            get_total_price(cart[s]) = LineTotals(cart[s], cart_ids(cart[s])))
    /\ [][\A s \in Sessions :
            LET c == cart[s]
                total == get_total_price(cart[s])
                after == get_total_price(cart'[s])
            IN /\ (auth[s] /\ op'[s] = "cart_add" /\ nreq' = nreq + 1)
                  => \A p \in Products, q \in 1..MaxQty, ov \in BOOLEAN :
                        cart_add(s, p, Texts[q], IF ov THEN "on" ELSE "False")
                        => after =
                             IF added' # s THEN total
                             ELSE IF p \notin cart_ids(c)
                             THEN total + price[p] * q
                             ELSE IF ov
                             THEN total + line_of(c, p).price
                                              * (q - line_of(c, p).quantity)
                             ELSE total + line_of(c, p).price * q
               /\ (op'[s] = "cart_remove" /\ nreq' = nreq + 1)
                  => \A p \in Products :
                        cart_remove(s, p)
                        => after =
                             IF p \in cart_ids(c)
                             THEN total - line_of(c, p).price
                                              * line_of(c, p).quantity
                             ELSE total]_vars

\* after a removal the cart holds two units of one product, whose price
\* staff have changed since the line was started
C22_Witness ==
    \E s \in Sessions :
        /\ op[s] = "cart_remove"
        /\ Len(cart[s]) = 1
        /\ cart[s][1].quantity = 2
        /\ cart[s][1].price # price[cart[s][1].pid]
        /\ get_total_price(cart[s]) = 2 * Price(cart[s][1].pid)
\* C23: the OrderItem that order_create creates for a cart line has the
\* line's product and quantity and the price the line holds, the product's
\* price when the line was started, whatever the product's price is when
\* the order is made.
C23_ItemCarriesLinePrice ==
    [][\A s \in Sessions :
          (pc[s] = "create_item" /\ pc'[s] = "save_product")
          => \E p \in cart_ids(cart[s]) :
                items' = items \cup
                    {[order |-> ord[s], product |-> p,
                      price |-> line_of(cart[s], p).price,
                      quantity |-> line_of(cart[s], p).quantity]}
                /\ items' # items]_vars

\* an OrderItem at the price of the add, which the product no longer has
C23_Witness ==
    \E s \in Sessions : \E it \in items :
        /\ pc[s] = "save_product"
        /\ it.order = ord[s]
        /\ it.price = Price(it.product)
        /\ price[it.product] # Price(it.product)
        /\ prods[s][it.product].price = price[it.product]
\* C24: the Order an order_create request saves has no user when the
\* request's session is not logged in and the session's user when it is,
\* and in both cases the contact fields the request posted; the saving
\* changes no other Order.
C24_OrderUserAndContact ==
    [][\A s \in Sessions :
          /\ (pc[s] = "idle" /\ pc'[s] = "validate")
             => \A posted \in Contacts :
                   OrderCreatePost(s, posted) => form'[s] = posted
          /\ (pc[s] = "save_order" /\ pc'[s] = "iterate")
             => /\ Len(orders') = Len(orders) + 1
                /\ ord'[s] = Len(orders')
                /\ orders'[ord'[s]].user = IF auth[s] THEN s ELSE "anonymous"
                /\ orders'[ord'[s]].contact = form[s]
                /\ \A i \in 1..Len(orders) : orders'[i] = orders[i]]_vars

\* a guest's order and a customer's order, each with the contact fields its
\* client posted
C24_Witness ==
    \E i, j \in 1..Len(orders), s, t \in Sessions :
        /\ ~auth[s]
        /\ orders[i].user = "anonymous"
        /\ orders[i].contact = OwnContact(s)
        /\ auth[t]
        /\ orders[j].user = t
        /\ orders[j].contact = OwnContact(t)
\* C25: an order_create request that posts complete contact fields with a
\* cart without lines passes the validation, saves exactly one Order unless
\* that statement fails, creates no OrderItem, changes no product's stock,
\* invokes the confirmation email of that Order and ends with the order
\* created.
C25_EmptyCartOrder ==
    [][\A s \in Sessions :
          /\ (pc[s] = "idle" /\ cart[s] = <<>> /\ nreq' = nreq + 1)
             => \A posted \in Contacts :
                   OrderCreatePost(s, posted)
                   => (pc'[s] = "validate" /\ rcart'[s] = <<>>)
          /\ (InFlight(s) /\ rcart[s] = <<>> /\ pc'[s] # pc[s])
             => /\ stock' = stock
                /\ items' = items
                /\ ItemsOf(ord'[s]) = {}
                /\ cart'[s] = <<>>
                /\ pc[s] = "validate" => pc'[s] = "save_order"
                /\ pc[s] = "save_order"
                      => \/ /\ pc'[s] = "iterate"
                            /\ Len(orders') = Len(orders) + 1
                            /\ ord'[s] = Len(orders')
                         \/ /\ result'[s] = "error"
                            /\ orders' = orders
                /\ pc[s] # "save_order" => orders' = orders
                /\ pc[s] = "iterate" => pc'[s] = "clear"
                /\ pc[s] = "clear" => pc'[s] = "email"
                /\ pc[s] = "email"
                      => /\ result'[s] = "created"
                         /\ ord[s] \in DOMAIN orders
                         /\ ord[s] \notin notified \cup mailFailed
                         /\ ord[s] \in notified' \cup mailFailed'
                /\ pc[s] # "email"
                      => (notified' = notified /\ mailFailed' = mailFailed)]_vars

\* an order without items has been created and its email has gone out, the
\* stock being what the catalog started with
C25_Witness ==
    \E s \in Sessions :
        /\ result[s] = "created"
        /\ ord[s] \in DOMAIN orders
        /\ ItemsOf(ord[s]) = {}
        /\ ord[s] \in notified
        /\ items = {}
        /\ stock = supplied
\* C26: a cart_add of a logged-in user and a complete_pending_add of a
\* stored intent that name an id of no product are answered "not found",
\* whatever the quantity and the override flag, and leave every cart as it
\* was.
C26_UnknownProductNotFound ==
    [][\A s \in Sessions, p \in ProductIds \ Products :
          /\ (auth[s] /\ op'[s] = "cart_add" /\ nreq' = nreq + 1)
             => \A rq \in RawQuantities, rov \in RawOverrides :
                   cart_add(s, p, rq, rov)
                   => (resp'[s] = "not_found" /\ cart' = cart)
          /\ (pending[s].product_id = p /\ complete_pending_add(s))
             => (resp'[s] = "not_found" /\ cart' = cart)]_vars

\* a resumed add for an id of no product was answered "not found" and the
\* line the cart had is still there
C26_Witness ==
    \E s \in Sessions :
        /\ op[s] = "complete_pending_add"
        /\ resp[s] = "not_found"
        /\ cart[s] # <<>>
\* C27: a request of a session that is not logged in gives the session's
\* cart no new line and raises the quantity of none of its lines: the cart
\* of a client that never logs in stays empty.
C27_GuestCartNeverGrows ==
    [][\A s \in Sessions :
          ~auth[s]
          => /\ cart_ids(cart'[s]) \subseteq cart_ids(cart[s])
             /\ \A p \in cart_ids(cart'[s]) :
                   line_of(cart'[s], p).quantity <= line_of(cart[s], p).quantity]_vars
\* C28: when no two order_create requests run at the same time and none
\* dies of a persistence failure, no product's stock is ever negative, and
\* whenever no request is running each product's stock is the stock it
\* started with minus the quantities of the OrderItem rows created for it,
\* whatever cart_add, cart_remove and order_create requests the sessions
\* have sent.
C28_SerialOrdersKeepStock ==
    /\ \A p \in Products : stock[p] >= 0
    /\ (\A s \in Sessions : pc[s] = "idle")
          => \A p \in Products :
                stock[p] = supplied[p] - SumQuantity({it \in items : it.product = p})

\* one session's order has taken the last units of a product and the next
\* session's order for it was rejected
C28_Witness ==
    \E s, t \in Sessions, p \in Products :
        /\ \A u \in Sessions : pc[u] = "idle"
        /\ result[s] = "created"
        /\ result[t] = "rejected"
        /\ stock[p] = 0
        /\ Sold(p) = supplied[p]
        /\ \E k \in 1..Len(report[t]) : report[t][k].pid = p
        /\ Sold(p) = MaxStock
\* C29: the lines of a cart become OrderItem rows of one Order at most:
\* when a session's cart, which is not filled again, is ordered from two
\* tabs at the same time, no product has OrderItem rows of two Orders and
\* no product's stock is decremented for two Orders.
C29_CartOrderedOnce ==
    /\ \A it, jt \in items : it.product = jt.product => it.order = jt.order
    /\ \A d, e \in decs : d.pid = e.pid => d.ord = e.ord
\* C30: as long as a product's stock has not been written, the quantity of
\* the product's line in a session's cart, if there is one, is at most the
\* product's stock, whatever cart_add requests, logged in or not,
\* complete_pending_add requests and cart_remove requests the session has
\* sent.
C30_LineWithinStock ==
    \A s \in Sessions, p \in Products :
        (ver[p] = 0 /\ p \in cart_ids(cart[s]))
            => line_of(cart[s], p).quantity <= stock[p]

\* a line holds all the stock of its product and a resumed add of more has
\* been refused
C30_Witness ==
    \E s \in Sessions, p \in Products :
        /\ ver[p] = 0
        /\ p \in cart_ids(cart[s])
        /\ line_of(cart[s], p).quantity = stock[p]
        /\ op[s] = "complete_pending_add"
        /\ msg[s] = [kind |-> "only_n", n |-> stock[p]]

\* C31: an order_create request that opens the order form (GET), or submits
\* it with a required contact field left out, is over when the form page is
\* rendered: it creates no Order and no OrderItem, changes no product's
\* stock, sends no confirmation email and leaves the cart as it was; the
\* requests that go on to the order assembly are the ones submitted with
\* complete contact fields.
C31_FormOnlyRequestChangesNothing ==
    /\ [](\A s \in Sessions : pc[s] # "idle" => form[s] \in Contacts)
    /\ [][\A s \in Sessions :
            (\/ OrderCreateGet(s)
             \/ \E posted \in Forms \ Contacts : OrderCreatePost(s, posted))
            => /\ pc'[s] = "idle"
               /\ UNCHANGED <<orders, items, stock, notified, mailFailed, cart>>]_vars

\* one client has submitted the form with a field left out and the other has
\* opened it, each with a cart the stock covers: submitted with complete
\* fields, either request would have created an order
C31_Witness ==
    \E s, t \in Sessions :
        /\ s # t
        /\ result[s] = "form_invalid"
        /\ result[t] = "form_shown"
        /\ \A u \in {s, t} :
              /\ pc[u] = "idle"
              /\ cart[sid[u]] # <<>>
              /\ stock_errors(cart[sid[u]], stock) = <<>>
        /\ orders = <<>> /\ items = {} /\ notified = {} /\ mailFailed = {}

\* C32: the order pages show an order to its owner only.  Every order on a
\* page of order_history or order_detail is an Order row whose user is the
\* logged-in, non-staff user who asked; a requester who is not logged in or
\* is staff gets a page without orders; order_history lists the
\* requester's orders, order_detail answers a customer with the order asked
\* for when it is theirs and with not-found otherwise; so an order without
\* a user is on nobody's page.
C32_OrdersShownToOwnerOnly ==
    /\ [](\A s \in Sessions :
            /\ \A o \in page[s].orders :
                  /\ o \in 1..Len(orders)
                  /\ orders[o].user = page[s].user
                  /\ orders[o].user # "anonymous"
                  /\ ~is_staff(page[s].user)
            /\ page[s].user = "anonymous" \/ is_staff(page[s].user)
                  => page[s].orders = {} /\ page[s].status # "not_found")
    /\ [][\A s \in Sessions :
            LET u == IF auth[sid[s]] THEN sid[s] ELSE "anonymous"
                customer == auth[sid[s]] /\ ~is_staff(u)
                mine == {o \in 1..Len(orders) : orders[o].user = u}
            IN /\ order_history(s) =>
                     page'[s].orders = IF customer THEN mine ELSE {}
               /\ \A order_id \in 1..(Len(orders) + 1) :
                     order_detail(s, order_id) =>
                        /\ page'[s].orders =
                              IF customer /\ order_id \in mine
                              THEN {order_id} ELSE {}
                        /\ page'[s].status = "not_found"
                              <=> customer /\ order_id \notin mine]_vars

\* a customer with an order of their own has asked for a guest's order and
\* was answered not-found, and a requester who is not logged in has opened
\* the history while there are orders and was shown none
C32_Witness ==
    \E s, t \in Sessions :
        /\ page[s].view = "order_detail"
        /\ page[s].status = "not_found"
        /\ page[s].asked \in 1..Len(orders)
        /\ orders[page[s].asked].user = "anonymous"
        /\ orders_of(page[s].user, orders) # {}
        /\ page[t].view = "order_history"
        /\ page[t].user = "anonymous"
        /\ page[t].orders = {}

====
